---- MODULE Spec2Model ----
(***************************************************************************)
(* Model of python_terraform.Terraform (src/python_terraform/__init__.py): *)
(* the option encoder generate_cmd_string, the process runner cmd, the     *)
(* state refresh read_state_file and the convenience operations apply and  *)
(* output.                                                                 *)
(*                                                                         *)
(* Text is modelled as a sequence of one-character strings, so that        *)
(* split, join, replace and format act on characters as they do in Python. *)
(***************************************************************************)
EXTENDS Integers, Sequences, FiniteSets, TLC

VARIABLES self, call

vars == <<self, call>>

(***************************************************************************)
(* Bounds of the model.                                                    *)
(***************************************************************************)
\* largest number of keyword options in one generate_cmd_string call
MaxOpts == 2
\* largest number of elements of a list-valued or map-valued option
MaxElems == 2
\* largest number of positional arguments
MaxArgs == 2
\* exit codes of the child process range over 0..MaxRet
MaxRet == 1

(***************************************************************************)
(* Python values.                                                          *)
(***************************************************************************)
None == [tag |-> "None", val |-> <<>>]
StrV(s) == [tag |-> "str", val |-> s]
BoolV(b) == [tag |-> "bool", val |-> b]
IntV(n) == [tag |-> "int", val |-> n]
ListV(l) == [tag |-> "list", val |-> l]
DictV(d) == [tag |-> "dict", val |-> d]

\* truth value of a scalar or container, as `not v` / `if v` tests it
Truthy(v) ==
  CASE v.tag = "None" -> FALSE
    [] v.tag = "bool" -> v.val
    [] v.tag = "int" -> v.val # 0
    [] OTHER -> Len(v.val) > 0

Digit(n) == <<"0", "1", "2", "3", "4", "5", "6", "7", "8", "9">>[n + 1]

RECURSIVE Decimal(_)
Decimal(n) == IF n < 10 THEN <<Digit(n)>> ELSE Decimal(n \div 10) \o <<Digit(n % 10)>>

\* str.format applied to one value: '{v}'.format(v=v)
Format(v) ==
  CASE v.tag = "None" -> <<"N", "o", "n", "e">>
    [] v.tag = "bool" -> IF v.val THEN <<"T", "r", "u", "e">> ELSE <<"F", "a", "l", "s", "e">>
    [] v.tag = "int" -> Decimal(v.val)
    [] OTHER -> v.val

(***************************************************************************)
(* String primitives used by generate_cmd_string.                          *)
(***************************************************************************)
Whitespace == {" ", "\t"}

RECURSIVE split_from(_, _, _, _)
split_from(s, i, word, words) ==
  IF i > Len(s)
  THEN IF word = <<>> THEN words ELSE Append(words, word)
  ELSE IF s[i] \in Whitespace
       THEN split_from(s, i + 1, <<>>, IF word = <<>> THEN words ELSE Append(words, word))
       ELSE split_from(s, i + 1, Append(word, s[i]), words)

\* str.split(): split on runs of whitespace, no empty words
split(s) == split_from(s, 1, <<>>, <<>>)

RECURSIVE join(_, _)
\* sep.join(parts)
join(sep, parts) ==
  IF Len(parts) = 0 THEN <<>>
  ELSE IF Len(parts) = 1 THEN parts[1]
  ELSE parts[1] \o sep \o join(sep, Tail(parts))

\* replaces the first occurrence only
replace_first(k, old, new) ==
  [i \in 1..Len(k) |->
     IF k[i] = old /\ \A j \in 1..(i - 1) : k[j] # old THEN new ELSE k[i]]

\* k.replace('_', '-')
replace(k, old, new) == [i \in 1..Len(k) |-> IF k[i] = old THEN new ELSE k[i]]

terraform == <<"t", "e", "r", "r", "a", "f", "o", "r", "m">>
true == <<"t", "r", "u", "e">>
false == <<"f", "a", "l", "s", "e">>

(***************************************************************************)
(* generate_cmd_string                                                     *)
(***************************************************************************)
\* a list value: one -k=element token per element (lines 100-103)
ListTokens_FirstOnly(k, v) ==
  IF Len(v.val) = 0 THEN <<>>
  ELSE << <<"-">> \o k \o <<"=">> \o Format(v.val[1]) >>

ListTokens(k, v) ==
  [i \in 1..Len(v.val) |-> <<"-">> \o k \o <<"=">> \o Format(v.val[i])]

\* a dict value: one -k='key=value' token per entry (lines 105-110)
DictTokens(k, v) ==
  [i \in 1..Len(v.val) |->
     <<"-">> \o k \o <<"=", "'">> \o Format(v.val[i][1]) \o <<"=">>
             \o Format(v.val[i][2]) \o <<"'">>]

\* any other value (lines 112-123)
ScalarTokens_NoSkip(k, v) ==
  IF v = StrV(<<>>)
  THEN << <<"-">> \o k >>
  ELSE LET w == IF v.tag = "bool" THEN StrV(IF v.val THEN true ELSE false) ELSE v
       IN << <<"-">> \o k \o <<"=">> \o Format(w) >>

ScalarTokens(k, v) ==
  IF v = StrV(<<>>)
  THEN << <<"-">> \o k >>
  ELSE IF ~Truthy(v)
  THEN <<>>
  ELSE LET w == IF v.tag = "bool" THEN StrV(IF v.val THEN true ELSE false) ELSE v
       IN << <<"-">> \o k \o <<"=">> \o Format(w) >>

\* body of the loop over kwargs.items(): the tokens one option adds to cmds
EncodeOption(k0, v) ==
  LET k == IF \E i \in 1..Len(k0) : k0[i] = "_" THEN replace(k0, "_", "-") ELSE k0 IN
  IF v.tag = "list" THEN ListTokens(k, v)
  ELSE IF v.tag = "dict" THEN DictTokens(k, v)
  ELSE ScalarTokens(k, v)

RECURSIVE OptionLoop(_, _, _)
\* for k, v in kwargs.items(): cmds += ...
OptionLoop(cmds, kwargs, i) ==
  IF i > Len(kwargs) THEN cmds
  ELSE OptionLoop(cmds \o EncodeOption(kwargs[i].k, kwargs[i].v), kwargs, i + 1)

\* positional arguments placed before the options
generate_cmd_string_args_first(slf, cmd, args, kwargs) ==
  LET cmds0 == <<slf.terraform_bin_path>> \o split(cmd)
      cmds1 == OptionLoop(cmds0 \o args, kwargs, 1)
  IN join(<<" ">>, cmds1)

generate_cmd_string(slf, cmd, args, kwargs) ==
  LET cmds0 == <<slf.terraform_bin_path>> \o split(cmd)
      cmds1 == OptionLoop(cmds0, kwargs, 1)
  IN join(<<" ">>, cmds1 \o args)

(***************************************************************************)
(* Construction.                                                           *)
(***************************************************************************)
\* Terraform.__init__: the instance fields after construction
Terraform(a) ==
  [working_dir |-> a.working_dir,
   state |-> a.state,
   targets |-> IF a.targets = None THEN ListV(<<>>) ELSE a.targets,
   variables |-> IF a.variables = None THEN DictV(<<>>) ELSE a.variables,
   parallelism |-> a.parallelism,
   terraform_bin_path |-> IF Truthy(a.terraform_bin_path)
                          THEN a.terraform_bin_path.val ELSE terraform,
   var_file |-> a.var_file,
   input |-> BoolV(FALSE),
   tfstate |-> [kind |-> "dict", serial |-> 0]]

(***************************************************************************)
(* The environment: what the child process and the file system answer.     *)
(***************************************************************************)
\* text produced on stdout, seen through the JSON grammar: leading
\* whitespace, then a document that is not JSON, a JSON array, or a JSON
\* object with or without the key 'value'
Garbage == [kind |-> "garbage", has_value |-> FALSE, value |-> None]
JsonArray == [kind |-> "array", has_value |-> FALSE, value |-> None]
JsonObject(v) == [kind |-> "object", has_value |-> TRUE, value |-> v]
JsonObjectNoValue == [kind |-> "object", has_value |-> FALSE, value |-> None]

OutTexts ==
  {[lead |-> 0, body |-> Garbage],
   [lead |-> 0, body |-> JsonArray],
   [lead |-> 0, body |-> JsonObjectNoValue],
   [lead |-> 1, body |-> JsonObject(IntV(1))]}

ErrTexts == {<<"e">>, <<"f">>}

NoText == [lead |-> 0, body |-> Garbage]

\* byte streams: utf8 tells whether the bytes are valid UTF-8
OutBytes == [utf8 : {TRUE}, text : OutTexts] \cup {[utf8 |-> FALSE, text |-> NoText]}
ErrBytes == [utf8 : {TRUE}, text : ErrTexts] \cup {[utf8 |-> FALSE, text |-> <<>>]}

\* outcome of one child process: p.returncode and p.communicate()
Children == [ret : 0..MaxRet, out : OutBytes, err : ErrBytes]

\* what is found at the state file path when it is loaded
FileContents ==
  {[kind |-> "missing", serial |-> 0],
   [kind |-> "state", serial |-> 1],
   [kind |-> "state", serial |-> 2]}

(***************************************************************************)
(* read_state_file                                                         *)
(***************************************************************************)
terraform_tfstate ==
  <<"t", "e", "r", "r", "a", "f", "o", "r", "m", ".", "t", "f", "s", "t", "a", "t", "e">>

\* os.path.join(a, b) on a POSIX system
os_path_join(a, b) ==
  IF Len(b) > 0 /\ b[1] = "/" THEN b
  ELSE IF Len(a) = 0 \/ a[Len(a)] = "/" THEN a \o b
  ELSE a \o <<"/">> \o b

\* Tfstate.load_file: returns the parsed document, or fails when the file
\* is missing or cannot be parsed
load_file(file_path, content) ==
  IF content.kind = "state"
  THEN [raised |-> FALSE, doc |-> content]
  ELSE [raised |-> TRUE, doc |-> content]

\* a failed load is swallowed and the snapshot kept
read_state_file_swallow(slf, file_path, content) ==
  LET fp1 == IF ~Truthy(file_path) THEN slf.state ELSE file_path
      fp2 == IF ~Truthy(fp1) THEN StrV(terraform_tfstate) ELSE fp1
      fp3 == IF Truthy(slf.working_dir)
             THEN os_path_join(slf.working_dir.val, fp2.val) ELSE fp2.val
      r == load_file(fp3, content)
  IN [raised |-> FALSE,
      path |-> fp3,
      tfstate |-> IF r.raised THEN slf.tfstate ELSE r.doc]

read_state_file(slf, file_path, content) ==
  LET fp1 == IF ~Truthy(file_path) THEN slf.state ELSE file_path
      fp2 == IF ~Truthy(fp1) THEN StrV(terraform_tfstate) ELSE fp1
      fp3 == IF Truthy(slf.working_dir)
             THEN os_path_join(slf.working_dir.val, fp2.val) ELSE fp2.val
      r == load_file(fp3, content)
  IN [raised |-> r.raised,
      path |-> fp3,
      tfstate |-> IF r.raised THEN slf.tfstate ELSE r.doc]

(***************************************************************************)
(* cmd                                                                     *)
(***************************************************************************)
NoError == [type |-> "none", msg |-> <<>>]
StateLoadError == [type |-> "StateLoadError", msg |-> <<>>]
UnicodeDecodeError == [type |-> "UnicodeDecodeError", msg |-> <<>>]
RuntimeError(msg) == [type |-> "RuntimeError", msg |-> msg]

\* the state file is reloaded whatever the exit code
cmd_reload_always(slf, c, args, kwargs, child, content) ==
  LET cmd_string == generate_cmd_string(slf, c, args, kwargs)
      reload == TRUE
      rs == read_state_file(slf, None, content)
      base == [outcome |-> "returned", error |-> NoError,
               ret |-> child.ret, out |-> NoText, err |-> <<>>,
               cmd_string |-> cmd_string, child_ret |-> child.ret,
               reloads |-> IF reload THEN 1 ELSE 0,
               tfstate |-> IF reload THEN rs.tfstate ELSE slf.tfstate]
  IN IF reload /\ rs.raised
     THEN [base EXCEPT !.outcome = "raised", !.error = StateLoadError]
     ELSE IF ~child.out.utf8 \/ ~child.err.utf8
     THEN [base EXCEPT !.outcome = "raised", !.error = UnicodeDecodeError]
     ELSE [base EXCEPT !.out = child.out.text, !.err = child.err.text]

\* the result of one call of cmd: how it ended, what it returned, the
\* snapshot it leaves in self.tfstate, and what it did on the way
cmd(slf, c, args, kwargs, child, content) ==
  LET cmd_string == generate_cmd_string(slf, c, args, kwargs)
      reload == child.ret = 0
      rs == read_state_file(slf, None, content)
      base == [outcome |-> "returned", error |-> NoError,
               ret |-> child.ret, out |-> NoText, err |-> <<>>,
               cmd_string |-> cmd_string, child_ret |-> child.ret,
               reloads |-> IF reload THEN 1 ELSE 0,
               tfstate |-> IF reload THEN rs.tfstate ELSE slf.tfstate]
  IN IF reload /\ rs.raised
     THEN [base EXCEPT !.outcome = "raised", !.error = StateLoadError]
     ELSE IF ~child.out.utf8 \/ ~child.err.utf8
     THEN [base EXCEPT !.outcome = "raised", !.error = UnicodeDecodeError]
     ELSE [base EXCEPT !.out = child.out.text, !.err = child.err.text]

(***************************************************************************)
(* apply                                                                   *)
(***************************************************************************)
k_state == <<"s", "t", "a", "t", "e">>
k_target == <<"t", "a", "r", "g", "e", "t">>
k_var == <<"v", "a", "r">>
k_var_file == <<"v", "a", "r", "_", "f", "i", "l", "e">>
k_parallelism == <<"p", "a", "r", "a", "l", "l", "e", "l", "i", "s", "m">>
k_no_color == <<"n", "o", "_", "c", "o", "l", "o", "r">>
k_input == <<"i", "n", "p", "u", "t">>
k_json == <<"j", "s", "o", "n">>
s_apply == <<"a", "p", "p", "l", "y">>
s_output == <<"o", "u", "t", "p", "u", "t">>

HasKey(d, k) == \E i \in 1..Len(d) : d[i].k = k

Lookup(d, k) == d[CHOOSE i \in 1..Len(d) : d[i].k = k].v

\* d.update(kwargs) on an insertion-ordered dict: a key already in d keeps
\* its position and takes the new value, a new key is appended
update(d, kwargs) ==
  LET IsNew(e) == ~HasKey(d, e.k) IN
  [i \in 1..Len(d) |->
     IF HasKey(kwargs, d[i].k) THEN [k |-> d[i].k, v |-> Lookup(kwargs, d[i].k)]
     ELSE d[i]]
  \o SelectSeq(kwargs, IsNew)

\* the error raised for a failed run does not carry stderr
apply_no_message(slf, working_dir, no_color, kwargs, child, content) ==
  LET wd == IF ~Truthy(working_dir) THEN slf.working_dir ELSE working_dir
      d1 == <<[k |-> k_state, v |-> slf.state],
              [k |-> k_target, v |-> slf.targets],
              [k |-> k_var, v |-> slf.variables],
              [k |-> k_var_file, v |-> slf.var_file],
              [k |-> k_parallelism, v |-> slf.parallelism]>>
      d2 == IF no_color THEN Append(d1, [k |-> k_no_color, v |-> StrV(<<>>)]) ELSE d1
      d3 == Append(d2, [k |-> k_input, v |-> slf.input])
      option_dict == update(d3, kwargs)
      args == IF Truthy(wd) THEN <<wd.val>> ELSE <<>>
      res == cmd(slf, s_apply, args, option_dict, child, content)
      base == [outcome |-> "returned", error |-> NoError, value |-> None,
               decoded |-> FALSE, res |-> res, c |-> s_apply,
               args |-> args, kwargs |-> option_dict]
  IN IF res.outcome = "raised"
     THEN [base EXCEPT !.outcome = "raised", !.error = res.error]
     ELSE IF res.ret # 0
     THEN [base EXCEPT !.outcome = "raised", !.error = RuntimeError(<<>>)]
     ELSE base

\* the default variable map is left out of the options
apply_without_var(slf, working_dir, no_color, kwargs, child, content) ==
  LET wd == IF ~Truthy(working_dir) THEN slf.working_dir ELSE working_dir
      d1 == <<[k |-> k_state, v |-> slf.state],
              [k |-> k_target, v |-> slf.targets],
              [k |-> k_var_file, v |-> slf.var_file],
              [k |-> k_parallelism, v |-> slf.parallelism]>>
      d2 == IF no_color THEN Append(d1, [k |-> k_no_color, v |-> StrV(<<>>)]) ELSE d1
      d3 == Append(d2, [k |-> k_input, v |-> slf.input])
      option_dict == update(d3, kwargs)
      args == IF Truthy(wd) THEN <<wd.val>> ELSE <<>>
      res == cmd(slf, s_apply, args, option_dict, child, content)
      base == [outcome |-> "returned", error |-> NoError, value |-> None,
               decoded |-> FALSE, res |-> res, c |-> s_apply,
               args |-> args, kwargs |-> option_dict]
  IN IF res.outcome = "raised"
     THEN [base EXCEPT !.outcome = "raised", !.error = res.error]
     ELSE IF res.ret # 0
     THEN [base EXCEPT !.outcome = "raised", !.error = RuntimeError(res.err)]
     ELSE base

\* the result of one call of apply; res is the result of the cmd call it makes.
\* option_dict is iterated in insertion order.
apply(slf, working_dir, no_color, kwargs, child, content) ==
  LET wd == IF ~Truthy(working_dir) THEN slf.working_dir ELSE working_dir
      d1 == <<[k |-> k_state, v |-> slf.state],
              [k |-> k_target, v |-> slf.targets],
              [k |-> k_var, v |-> slf.variables],
              [k |-> k_var_file, v |-> slf.var_file],
              [k |-> k_parallelism, v |-> slf.parallelism]>>
      d2 == IF no_color THEN Append(d1, [k |-> k_no_color, v |-> StrV(<<>>)]) ELSE d1
      d3 == Append(d2, [k |-> k_input, v |-> slf.input])
      option_dict == update(d3, kwargs)
      args == IF Truthy(wd) THEN <<wd.val>> ELSE <<>>
      res == cmd(slf, s_apply, args, option_dict, child, content)
      base == [outcome |-> "returned", error |-> NoError, value |-> None,
               decoded |-> FALSE, res |-> res, c |-> s_apply,
               args |-> args, kwargs |-> option_dict]
  IN IF res.outcome = "raised"
     THEN [base EXCEPT !.outcome = "raised", !.error = res.error]
     ELSE IF res.ret # 0
     THEN [base EXCEPT !.outcome = "raised", !.error = RuntimeError(res.err)]
     ELSE base

(***************************************************************************)
(* output                                                                  *)
(***************************************************************************)
ValueError == [type |-> "ValueError", msg |-> <<>>]
TypeError == [type |-> "TypeError", msg |-> <<>>]
KeyError == [type |-> "KeyError", msg |-> <<>>]

\* out.lstrip()
lstrip(text) == [text EXCEPT !.lead = 0]

\* json.loads(out): leading whitespace is allowed by the JSON grammar
json_loads(text) ==
  IF text.body.kind = "garbage"
  THEN [raised |-> TRUE, error |-> ValueError, doc |-> text.body]
  ELSE [raised |-> FALSE, error |-> NoError, doc |-> text.body]

\* output_dict['value']
getitem_value(doc) ==
  IF doc.kind # "object" THEN [raised |-> TRUE, error |-> TypeError, value |-> None]
  ELSE IF ~doc.has_value THEN [raised |-> TRUE, error |-> KeyError, value |-> None]
  ELSE [raised |-> FALSE, error |-> NoError, value |-> doc.value]

\* a failed run is reported by raising, as apply does
output_raise_on_failure(slf, name, child, content) ==
  LET args == <<name>>
      kwargs == <<[k |-> k_json, v |-> StrV(<<>>)]>>
      res == cmd(slf, s_output, args, kwargs, child, content)
      base == [outcome |-> "returned", error |-> NoError, value |-> None,
               decoded |-> FALSE, res |-> res, c |-> s_output,
               args |-> args, kwargs |-> kwargs]
      loaded == json_loads(lstrip(res.out))
      item == getitem_value(loaded.doc)
  IN IF res.outcome = "raised"
     THEN [base EXCEPT !.outcome = "raised", !.error = res.error]
     ELSE IF res.ret # 0
     THEN [base EXCEPT !.outcome = "raised", !.error = RuntimeError(res.err)]
     ELSE IF loaded.raised
     THEN [base EXCEPT !.outcome = "raised", !.error = loaded.error, !.decoded = TRUE]
     ELSE IF item.raised
     THEN [base EXCEPT !.outcome = "raised", !.error = item.error, !.decoded = TRUE]
     ELSE [base EXCEPT !.value = item.value, !.decoded = TRUE]

\* the result of one call of output; res is the result of the cmd call it makes
output(slf, name, child, content) ==
  LET args == <<name>>
      kwargs == <<[k |-> k_json, v |-> StrV(<<>>)]>>
      res == cmd(slf, s_output, args, kwargs, child, content)
      base == [outcome |-> "returned", error |-> NoError, value |-> None,
               decoded |-> FALSE, res |-> res, c |-> s_output,
               args |-> args, kwargs |-> kwargs]
      loaded == json_loads(lstrip(res.out))
      item == getitem_value(loaded.doc)
  IN IF res.outcome = "raised"
     THEN [base EXCEPT !.outcome = "raised", !.error = res.error]
     ELSE IF res.ret # 0
     THEN base
     ELSE IF loaded.raised
     THEN [base EXCEPT !.outcome = "raised", !.error = loaded.error, !.decoded = TRUE]
     ELSE IF item.raised
     THEN [base EXCEPT !.outcome = "raised", !.error = item.error, !.decoded = TRUE]
     ELSE [base EXCEPT !.value = item.value, !.decoded = TRUE]

(***************************************************************************)
(* Inputs.                                                                 *)
(***************************************************************************)
SeqsUpTo(S, n) == UNION {[1..m -> S] : m \in 0..n}

s_plan == <<"p", "l", "a", "n">>
s_state_list == <<" ", "s", "t", " ", "\t", "l", "s", " ">>

\* constructor arguments of the instances that are explored
NoArgs ==
  [working_dir |-> None, targets |-> None, state |-> None, variables |-> None,
   parallelism |-> None, var_file |-> None, terraform_bin_path |-> None]

Constructions ==
  {NoArgs,
   [NoArgs EXCEPT !.variables = DictV(<< <<StrV(<<"a">>), StrV(<<"b">>)>> >>)],
   [working_dir |-> StrV(<<"d">>), targets |-> ListV(<<StrV(<<"t">>)>>),
    state |-> StrV(<<"s">>),
    variables |-> DictV(<< <<StrV(<<"a">>), StrV(<<"b">>)>>, <<StrV(<<"c">>), IntV(1)>> >>),
    parallelism |-> IntV(12), var_file |-> StrV(<<"f">>),
    terraform_bin_path |-> StrV(<<"t", "f">>)]}

\* inputs of the calls made on a constructed instance
RunCalls ==
  {[c |-> s_plan, args |-> <<>>, kwargs |-> <<>>],
   [c |-> s_state_list, args |-> << <<"x">> >>,
    kwargs |-> <<[k |-> k_no_color, v |-> StrV(<<>>)]>>]}
ApplyCalls ==
  {[working_dir |-> None, no_color |-> TRUE, kwargs |-> <<>>],
   [working_dir |-> StrV(<<"w">>), no_color |-> FALSE,
    kwargs |-> <<[k |-> k_input, v |-> BoolV(TRUE)], [k |-> k_json, v |-> None],
                 [k |-> k_var, v |-> DictV(<<>>)]>>]}
OutputNames == {<<"o">>}
StatePaths == {None, StrV(<<"/", "p">>)}

\* inputs of the encoder
Min(a, b) == IF a <= b THEN a ELSE b
ElementPool == <<StrV(<<"b">>), StrV(<<"a">>), StrV(<<"c">>), IntV(7)>>
EntryPool ==
  << <<StrV(<<"x">>), StrV(<<"1">>)>>, <<StrV(<<"y">>), IntV(2)>>,
     <<StrV(<<"z">>), StrV(<<"a">>)>>, <<StrV(<<"w">>), StrV(<<"b">>)>> >>
Scalars ==
  {None, StrV(<<>>), StrV(<<"a">>), BoolV(TRUE), BoolV(FALSE), IntV(0), IntV(12)}
Lists == {ListV(SubSeq(ElementPool, 1, n)) : n \in 0..Min(MaxElems, Len(ElementPool))}
Dicts == {DictV(SubSeq(EntryPool, 1, n)) : n \in 0..Min(MaxElems, Len(EntryPool))}
Values == Scalars \cup Lists \cup Dicts
Names == {<<"k">>, k_no_color, <<"a", "_", "b", "_">>}
Kwargs == {kw \in SeqsUpTo([k : Names, v : Values], MaxOpts) :
             \A i, j \in 1..Len(kw) : i # j => kw[i].k # kw[j].k}
Args == SeqsUpTo({<<"x">>}, MaxArgs)
\* subcommand and positional arguments of the encoder calls
EncCalls ==
  {[c |-> s_plan, args |-> a] : a \in Args}
    \cup {[c |-> s_state_list, args |-> a] : a \in {x \in Args : Len(x) = MaxArgs}}

(***************************************************************************)
(* The state machine.                                                      *)
(* self is the Terraform instance; call records the latest call on it: its *)
(* inputs (for apply: the options it built, and in overrides the options   *)
(* the caller gave), how it ended, the cmd call it made (res), if any, and *)
(* whether a loadable state file was in place (file_ok).                   *)
(***************************************************************************)
NoRes ==
  [outcome |-> "none", error |-> NoError, ret |-> -1, out |-> NoText, err |-> <<>>,
   cmd_string |-> <<>>, child_ret |-> -1, reloads |-> 0,
   tfstate |-> [kind |-> "dict", serial |-> 0]]

NoCall ==
  [op |-> "none", outcome |-> "none", error |-> NoError, value |-> None,
   decoded |-> FALSE, ran |-> FALSE, file_ok |-> TRUE, res |-> NoRes,
   c |-> <<>>, args |-> <<>>, kwargs |-> <<>>, overrides |-> <<>>]

Init ==
  /\ \E a \in Constructions : self = Terraform(a)
  /\ call = NoCall

Call_generate_cmd_string ==
  \E i \in RunCalls :
    /\ call' = [NoCall EXCEPT !.op = "generate_cmd_string", !.outcome = "returned",
                              !.value = StrV(generate_cmd_string(self, i.c, i.args,
                                                                 i.kwargs)),
                              !.c = i.c, !.args = i.args, !.kwargs = i.kwargs]
    /\ UNCHANGED self

Call_cmd ==
  \E i \in RunCalls, child \in Children, content \in FileContents :
    \E res \in {cmd(self, i.c, i.args, i.kwargs, child, content)} :
    /\ self' = [self EXCEPT !.tfstate = res.tfstate]
    /\ call' = [NoCall EXCEPT !.op = "cmd", !.outcome = res.outcome,
                              !.error = res.error, !.ran = TRUE, !.res = res,
                              !.file_ok = content.kind = "state",
                              !.c = i.c, !.args = i.args, !.kwargs = i.kwargs]

Call_apply ==
  \E i \in ApplyCalls, child \in Children, content \in FileContents :
    \E r \in {apply(self, i.working_dir, i.no_color, i.kwargs, child, content)} :
    /\ self' = [self EXCEPT !.tfstate = r.res.tfstate]
    /\ call' = [NoCall EXCEPT !.op = "apply", !.outcome = r.outcome,
                              !.overrides = i.kwargs,
                              !.error = r.error, !.value = r.value,
                              !.decoded = r.decoded, !.ran = TRUE, !.res = r.res,
                              !.file_ok = content.kind = "state",
                              !.c = r.c, !.args = r.args, !.kwargs = r.kwargs]

Call_output ==
  \E name \in OutputNames, child \in Children, content \in FileContents :
    \E r \in {output(self, name, child, content)} :
    /\ self' = [self EXCEPT !.tfstate = r.res.tfstate]
    /\ call' = [NoCall EXCEPT !.op = "output", !.outcome = r.outcome,
                              !.error = r.error, !.value = r.value,
                              !.decoded = r.decoded, !.ran = TRUE, !.res = r.res,
                              !.file_ok = content.kind = "state",
                              !.c = r.c, !.args = r.args, !.kwargs = r.kwargs]

Call_read_state_file ==
  \E file_path \in StatePaths, content \in FileContents :
    \E rs \in {read_state_file(self, file_path, content)} :
    /\ self' = [self EXCEPT !.tfstate = rs.tfstate]
    /\ call' = [NoCall EXCEPT !.op = "read_state_file",
                              !.outcome = IF rs.raised THEN "raised" ELSE "returned",
                              !.error = IF rs.raised THEN StateLoadError ELSE NoError,
                              !.file_ok = content.kind = "state",
                              !.c = rs.path]

Next ==
  \/ Call_generate_cmd_string
  \/ Call_cmd
  \/ Call_apply
  \/ Call_output
  \/ Call_read_state_file

Spec == Init /\ [][Next]_vars

(***************************************************************************)
(* The encoder on its own: one call of generate_cmd_string on arbitrary    *)
(* bounded inputs.                                                         *)
(***************************************************************************)
InitEnc ==
  /\ self = Terraform(NoArgs)
  /\ \E i \in EncCalls, kwargs \in Kwargs :
       call = [NoCall EXCEPT !.op = "pending", !.c = i.c, !.args = i.args,
                             !.kwargs = kwargs]

Encode ==
  /\ call.op = "pending"
  /\ call' = [call EXCEPT !.op = "generate_cmd_string", !.outcome = "returned",
                          !.value = StrV(generate_cmd_string(self, call.c, call.args,
                                                             call.kwargs))]
  /\ UNCHANGED self

NextEnc == Encode

SpecEnc == InitEnc /\ [][NextEnc]_vars

(***************************************************************************)
(* Vocabulary of the properties.                                           *)
(***************************************************************************)
RECURSIVE TokensFrom(_, _, _, _)
TokensFrom(s, i, word, words) ==
  IF i > Len(s) THEN Append(words, word)
  ELSE IF s[i] = " " THEN TokensFrom(s, i + 1, <<>>, Append(words, word))
  ELSE TokensFrom(s, i + 1, Append(word, s[i]), words)

\* the pieces of s between single spaces (an empty piece between two
\* adjacent spaces)
Tokens(s) == TokensFrom(s, 1, <<>>, <<>>)

StartsWith(s, p) == Len(s) >= Len(p) /\ SubSeq(s, 1, Len(p)) = p

EndsWith(s, p) == Len(s) >= Len(p) /\ SubSeq(s, Len(s) - Len(p) + 1, Len(s)) = p

\* the flag spelling of an option name
Dashed(k) == [i \in 1..Len(k) |-> IF k[i] = "_" THEN "-" ELSE k[i]]

\* t is a token of the flag named k: -<k> alone or -<k>=...
IsFlagOf(t, k) ==
  LET f == <<"-">> \o Dashed(k) IN
  t = f \/ StartsWith(t, f \o <<"=">>)

\* the tokens of the flag named k, in the order they stand in the tokens T
FlagsIn(T, k) == LET Is(t) == IsFlagOf(t, k) IN SelectSeq(T, Is)

\* the tokens of the flag named k, in the order they stand in the string s
FlagTokens(s, k) == FlagsIn(Tokens(s), k)

\* the latest call was generate_cmd_string and it has returned
Encoded == call.op = "generate_cmd_string" /\ call.outcome = "returned"

EncodedString == call.value.val

(***************************************************************************)
(* C2: in generate_cmd_string an option whose value is the boolean False   *)
(* is not dropped: for every option name k the encoded string contains the *)
(* token -<k>=false.                                                       *)
(***************************************************************************)
C2_FalseIsEncoded ==
  Encoded =>
    LET T == Tokens(EncodedString) IN
    \A i \in 1..Len(call.kwargs) :
      (call.kwargs[i].v.tag = "bool" /\ ~call.kwargs[i].v.val) =>
        FlagsIn(T, call.kwargs[i].k)
          = << <<"-">> \o Dashed(call.kwargs[i].k) \o <<"=">> \o false >>

(***************************************************************************)
(* C5: an option whose value is None never produces a token: when every    *)
(* option value is None, generate_cmd_string returns exactly the binary    *)
(* name, the subcommand words and the positional arguments joined by       *)
(* single spaces.                                                          *)
(***************************************************************************)
AllNone(kwargs) == \A i \in 1..Len(kwargs) : kwargs[i].v = None

C5_NoneYieldsNoToken ==
  (Encoded /\ AllNone(call.kwargs)) =>
    /\ EncodedString
         = join(<<" ">>, <<self.terraform_bin_path>> \o split(call.c) \o call.args)
    /\ LET T == Tokens(EncodedString) IN
       \A j \in 1..Len(T) : ~StartsWith(T[j], <<"-">>)

C5_Witness ==
  /\ Encoded
  /\ AllNone(call.kwargs)
  /\ Len(call.kwargs) >= 2
  /\ Len(call.args) >= 1

(***************************************************************************)
(* C6: a list-valued or map-valued option expands to exactly one flag      *)
(* token per element: a list [e1..en] under name k yields -k=e1 ... -k=en  *)
(* in list order, a map yields one token -k='<key>=<value>' per entry, and *)
(* an empty list or map yields no token.                                   *)
(***************************************************************************)
C6_ListTokens(k, l) ==
  [j \in 1..Len(l) |-> <<"-">> \o Dashed(k) \o <<"=">> \o Format(l[j])]

C6_MapTokens(k, d) ==
  [j \in 1..Len(d) |->
     <<"-">> \o Dashed(k) \o <<"=", "'">> \o Format(d[j][1]) \o <<"=">>
             \o Format(d[j][2]) \o <<"'">>]

C6_OneTokenPerElement ==
  Encoded =>
    LET T == Tokens(EncodedString) IN
    \A i \in 1..Len(call.kwargs) :
      LET k == call.kwargs[i].k
          v == call.kwargs[i].v
      IN /\ v.tag = "list" => FlagsIn(T, k) = C6_ListTokens(k, v.val)
         /\ v.tag = "dict" => FlagsIn(T, k) = C6_MapTokens(k, v.val)

C6_Witness ==
  /\ Encoded
  /\ \E i \in 1..Len(call.kwargs) :
       call.kwargs[i].v.tag = "list" /\ Len(call.kwargs[i].v.val) = 2
       /\ call.kwargs[i].v.val[1] # call.kwargs[i].v.val[2]
       /\ Len(FlagTokens(EncodedString, call.kwargs[i].k)) = 2
  /\ \E i \in 1..Len(call.kwargs) :
       call.kwargs[i].v.tag = "dict" /\ Len(call.kwargs[i].v.val) = 2
       /\ Len(FlagTokens(EncodedString, call.kwargs[i].k)) = 2

(***************************************************************************)
(* C7: an option whose value is the empty string is encoded as the bare    *)
(* token -<name>, where <name> is the option name with every underscore    *)
(* replaced by a hyphen; the replacement applies to the name of every      *)
(* emitted option token.                                                   *)
(***************************************************************************)
C7_BareFlagAndHyphens ==
  Encoded =>
    LET T == Tokens(EncodedString) IN
    /\ \A i \in 1..Len(call.kwargs) :
         call.kwargs[i].v = StrV(<<>>) =>
           FlagsIn(T, call.kwargs[i].k) = << <<"-">> \o Dashed(call.kwargs[i].k) >>
    /\ \A j \in 1..Len(T) :
         StartsWith(T[j], <<"-">>) =>
           \E i \in 1..Len(call.kwargs) : IsFlagOf(T[j], call.kwargs[i].k)

C7_Witness ==
  /\ Encoded
  /\ \E i \in 1..Len(call.kwargs) :
       /\ call.kwargs[i].k = <<"a", "_", "b", "_">>
       /\ call.kwargs[i].v = StrV(<<>>)
       /\ \E j \in 1..Len(Tokens(EncodedString)) :
            Tokens(EncodedString)[j] = <<"-", "a", "-", "b", "-">>
  /\ \E i \in 1..Len(call.kwargs) :
       /\ call.kwargs[i].k = k_no_color
       /\ call.kwargs[i].v.tag = "list"
       /\ Len(call.kwargs[i].v.val) > 0

(***************************************************************************)
(* C8: the string returned by generate_cmd_string has the order: binary    *)
(* name, subcommand words (the subcommand split on whitespace), option     *)
(* tokens in option iteration order, positional arguments last, with       *)
(* exactly one space between consecutive tokens.                           *)
(***************************************************************************)
\* positions of c where a word starts and, for a start, where the word ends
WordStarts(c) ==
  {i \in 1..Len(c) : c[i] \notin Whitespace /\ (i = 1 \/ c[i - 1] \in Whitespace)}

WordEnd(c, i) ==
  CHOOSE e \in i..Len(c) :
    /\ \A j \in i..e : c[j] \notin Whitespace
    /\ e = Len(c) \/ c[e + 1] \in Whitespace

\* the words of c: its maximal runs of non-whitespace characters, in order
Words(c) ==
  [n \in 1..Cardinality(WordStarts(c)) |->
     LET i == CHOOSE x \in WordStarts(c) :
                Cardinality({y \in WordStarts(c) : y <= x}) = n
     IN SubSeq(c, i, WordEnd(c, i))]

\* the position in kwargs of the option a flag token belongs to
OptionOf(t, kwargs) == CHOOSE i \in 1..Len(kwargs) : IsFlagOf(t, kwargs[i].k)

C8_TokenOrder ==
  Encoded =>
    LET T == Tokens(EncodedString)
        W == Words(call.c)
        first == 2 + Len(W)
        last == Len(T) - Len(call.args)
    IN /\ Len(T) >= 1 + Len(W) + Len(call.args)
       /\ T[1] = self.terraform_bin_path
       /\ SubSeq(T, 2, 1 + Len(W)) = W
       /\ SubSeq(T, last + 1, Len(T)) = call.args
       /\ \A j \in first..last :
            \E i \in 1..Len(call.kwargs) : IsFlagOf(T[j], call.kwargs[i].k)
       /\ \A a, b \in first..last :
            a < b => OptionOf(T[a], call.kwargs) <= OptionOf(T[b], call.kwargs)
       /\ \A j \in 1..Len(T) :
            Len(T[j]) > 0 /\ \A x \in 1..Len(T[j]) : T[j][x] \notin Whitespace

C8_Witness ==
  /\ Encoded
  /\ call.c = s_state_list
  /\ Len(call.args) >= 2
  /\ Len(call.kwargs) >= 2
  /\ Len(Tokens(EncodedString)) >= 7

(***************************************************************************)
(* C1: for every call of cmd: if the child process exits with code 0,      *)
(* exactly one state-reload attempt is made during that call; if it exits  *)
(* with a non-zero code, no reload attempt is made and tfstate has the     *)
(* same value after the call as before it.                                 *)
(***************************************************************************)
C1_ReloadOnlyOnSuccess ==
  [][call'.ran =>
       /\ call'.res.child_ret = 0 => call'.res.reloads = 1
       /\ call'.res.child_ret # 0 =>
            call'.res.reloads = 0 /\ self'.tfstate = self.tfstate]_vars

C1_Witness ==
  /\ call.op = "cmd"
  /\ call.outcome = "returned"
  /\ call.res.child_ret # 0
  /\ call.file_ok
  /\ self.tfstate.kind = "state"
  /\ self.tfstate.serial = 2

(***************************************************************************)
(* C3: apply raises an error if and only if the underlying run returns a   *)
(* non-zero exit code, the message of the error is exactly the stderr text *)
(* of that run, and when the exit code is 0 apply returns normally.        *)
(***************************************************************************)
C3_RaisesIffNonZero ==
  call.op = "apply" =>
    /\ call.outcome = "raised" <=> (call.res.outcome = "returned" /\ call.res.ret # 0)
    /\ call.outcome = "raised" => call.error = RuntimeError(call.res.err)
    /\ (call.res.outcome = "returned" /\ call.res.ret = 0) => call.outcome = "returned"

(***************************************************************************)
(* C3 as amended: when the call of cmd that apply makes returns a non-zero *)
(* exit code, apply raises a RuntimeError whose message is exactly the     *)
(* stderr text cmd returned; when it returns exit code 0, apply returns    *)
(* normally; apply raises a RuntimeError in no other case.  When cmd       *)
(* itself raises (the state reload failed after exit code 0, or the        *)
(* captured bytes are not UTF-8), that error leaves apply unchanged.       *)
(***************************************************************************)
C3_RaisesIffCmdReturnsNonZero ==
  call.op = "apply" =>
    /\ (call.res.outcome = "returned" /\ call.res.ret # 0) =>
         call.outcome = "raised" /\ call.error = RuntimeError(call.res.err)
    /\ (call.res.outcome = "returned" /\ call.res.ret = 0) =>
         call.outcome = "returned" /\ call.error = NoError
    /\ call.error.type = "RuntimeError" =>
         call.res.outcome = "returned" /\ call.res.ret # 0
    /\ call.res.outcome = "raised" =>
         call.outcome = "raised" /\ call.error = call.res.error

C3_Witness ==
  /\ call.op = "apply"
  /\ call.res.outcome = "returned"
  /\ call.res.ret = 1
  /\ call.outcome = "raised"
  /\ call.error = RuntimeError(<<"f">>)

(***************************************************************************)
(* C4: on an instance constructed with variables={"a":"b"}, cmd called     *)
(* with subcommand "plan" and no extra options executes a command string   *)
(* that ends in plan -var='a=b'.                                           *)
(***************************************************************************)
VariablesAB == DictV(<< <<StrV(<<"a">>), StrV(<<"b">>)>> >>)

C4_DefaultVariablesEncoded ==
  (/\ call.op = "cmd"
   /\ self.variables = VariablesAB
   /\ call.c = s_plan
   /\ call.args = <<>>
   /\ call.kwargs = <<>>) =>
    EndsWith(call.res.cmd_string,
             s_plan \o <<" ", "-", "v", "a", "r", "=", "'", "a", "=", "b", "'">>)

(***************************************************************************)
(* C4 as amended: on an instance constructed with variables={"a":"b"},     *)
(* cmd called with subcommand "plan" and no extra options executes exactly *)
(* <binary> plan, because cmd encodes only the options passed to it; it is *)
(* apply that encodes the instance's default variable map: called with no  *)
(* extra options, apply executes <binary> apply followed by options among  *)
(* which -var='a=b' stands exactly once.                                   *)
(***************************************************************************)
C4_VarToken == <<"-", "v", "a", "r", "=", "'", "a", "=", "b", "'">>

C4_DefaultVariablesEncodedByApply ==
  self.variables = VariablesAB =>
    /\ (call.op = "cmd" /\ call.c = s_plan /\ call.args = <<>> /\ call.kwargs = <<>>) =>
         call.res.cmd_string = self.terraform_bin_path \o <<" ">> \o s_plan
    /\ (call.op = "apply" /\ call.overrides = <<>>) =>
         /\ StartsWith(call.res.cmd_string,
                       self.terraform_bin_path \o <<" ">> \o s_apply \o <<" ">>)
         /\ FlagTokens(call.res.cmd_string, k_var) = <<C4_VarToken>>

C4_Witness ==
  /\ self.variables = VariablesAB
  /\ call.op = "apply"
  /\ call.overrides = <<>>
  /\ call.res.outcome = "returned"
  /\ call.res.ret = 0
  /\ \E j \in 1..Len(Tokens(call.res.cmd_string)) :
       Tokens(call.res.cmd_string)[j] = C4_VarToken

(***************************************************************************)
(* C9: output(name) never raises because of a failed run: when the run     *)
(* returns a non-zero exit code it returns None without decoding stdout;   *)
(* when the run returns exit code 0 and stdout is a JSON object with the   *)
(* key 'value', it returns the value under that key.                       *)
(***************************************************************************)
C9_OutputNoneOnFailure ==
  call.op = "output" =>
    /\ (call.res.outcome = "returned" /\ call.res.ret # 0) =>
         /\ call.outcome = "returned"
         /\ call.value = None
         /\ ~call.decoded
    /\ (/\ call.res.outcome = "returned"
        /\ call.res.ret = 0
        /\ call.res.out.body.kind = "object"
        /\ call.res.out.body.has_value) =>
         /\ call.outcome = "returned"
         /\ call.decoded
         /\ call.value = call.res.out.body.value

C9_Witness ==
  /\ call.op = "output"
  /\ call.res.outcome = "returned"
  /\ call.res.ret # 0
  /\ call.res.out.body.kind = "object"
  /\ call.res.out.body.has_value
  /\ call.outcome = "returned"
  /\ call.value = None

(***************************************************************************)
(* C10: when a run exits with code 0 and loading the state file then       *)
(* fails, the failure is propagated out of cmd rather than swallowed: cmd  *)
(* returns no (exit code, stdout, stderr) result, and the same failure     *)
(* propagates out of apply and output.                                     *)
(***************************************************************************)
C10_LoadFailurePropagates ==
  (call.ran /\ call.res.child_ret = 0 /\ ~call.file_ok) =>
    /\ call.res.outcome = "raised"
    /\ call.res.error = StateLoadError
    /\ call.outcome = "raised"
    /\ call.error = StateLoadError

C10_Witness ==
  /\ call.op = "output"
  /\ call.res.child_ret = 0
  /\ ~call.file_ok
  /\ call.outcome = "raised"
  /\ call.error = StateLoadError
  /\ self.tfstate.kind = "state"

====
